---- MODULE Spec2Model ----
(***************************************************************************)
(* Model of alevy/wasmtest: the runner's function_handler (main.rs), its  *)
(* two host functions write_key / read_key, the two Datastore backends,   *)
(* and the guest library and entry point of the wasmtest module (lib.rs). *)
(*                                                                         *)
(* Conventions.  A byte is a number in 0..255 and a byte string is a      *)
(* sequence of bytes.  Guest memory is a byte string; the byte at guest   *)
(* address a is mem[a + 1].  An Option<T> is a sequence of length 0 (None)*)
(* or 1 (Some).  A usize is a model integer; a negative model integer n   *)
(* stands for the usize 2^64 + n (what a wrapped subtraction or a         *)
(* sign-extended negative i32 yields), which exceeds every memory size.   *)
(***************************************************************************)
EXTENDS Integers, Sequences, FiniteSets, TLC

VARIABLES
    pc,        \* per request: the position of function_handler
    artifact,  \* per request: what Module::from_file finds at the module path
    body,      \* per request: event.body()
    database,  \* per request: state.database, a HashMap<Vec<u8>, Vec<u8>>
    mem,       \* per request: the instance's exported memory
    gpc,       \* per request: the position of the guest
    calls,     \* per request: the capability calls started and not yet completed
    args,      \* per request: the arguments entry was called with
    response,  \* per request: Option of the response body
    hist,      \* per request: the positions function_handler went through
    fault,     \* per request: Option of what ended the request in failure
    trace,     \* per request: the capability calls completed, in order
    backend,   \* which implementation of Datastore is exercised
    hmap,      \* a HashMap<Vec<u8>, Vec<u8>> used through the Datastore trait
    table,     \* the items of the DynamoDB table behind a DynamoDBDatastore
    keyAttr,   \* the name of the table's partition key attribute
    emptyKeyOk,\* whether the service accepts an empty binary key value
    last,      \* the last Datastore operations applied, with their results
    header,    \* the eight bytes at offsets 0..7 of a memory of any size
    pages,     \* the size of that memory in WebAssembly pages of 64 KiB
    extracted  \* Option of what the final slicing of that memory yields

reqVars == <<pc, artifact, body, database, mem, gpc, calls, args, response,
             hist, fault, trace>>
storeVars == <<backend, hmap, table, keyAttr, emptyKeyOk, last,
               header, pages, extracted>>
vars == <<pc, artifact, body, database, mem, gpc, calls, args, response,
          hist, fault, trace, backend, hmap, table, keyAttr, emptyKeyOk, last,
          header, pages, extracted>>

(***************************************************************************)
(* Bounds of the model.                                                    *)
(***************************************************************************)
PageSize == 16   \* bytes in one page of guest memory (65536 in WebAssembly)
InitPages == 3   \* pages the module's memory starts with
MaxPages == 4    \* pages the memory may grow to
MaxCalls == 2    \* capability calls an arbitrary guest makes in one request

Req == {1, 2}

(***************************************************************************)
(* Byte strings of the source.                                             *)
(***************************************************************************)
hello == <<104, 101, 108, 108, 111>>
world == <<119, 111, 114, 108, 100>>
foo == <<102, 111, 111>>
bar == <<98, 97, 114>>

None == <<>>
Some(x) == <<x>>

(***************************************************************************)
(* Little-endian words.                                                    *)
(***************************************************************************)
\* (n as u32).to_le_bytes(): the low four bytes of n.
to_le_bytes(n) ==
    <<n % 256, (n \div 256) % 256, (n \div 65536) % 256,
      (n \div 16777216) % 256>>

\* i32::from_le_bytes(b): two's complement, the top bit of b[4] is the sign.
i32_from_le_bytes(b) ==
    LET low == b[1] + 256 * b[2] + 65536 * b[3] + 16777216 * (b[4] % 128)
    IN  IF b[4] >= 128 THEN (low - 2147483647) - 1 ELSE low

\* The guest's load of a usize (u32 on wasm32) field.  Every pointer and
\* length of this model is below 2^31, where it agrees with the signed
\* reading.
u32_from_le_bytes(b) == i32_from_le_bytes(b)

(***************************************************************************)
(* wasmtime::Memory.                                                       *)
(***************************************************************************)
data_size(m) == Len(m)

\* A check that wants the offset to name a byte of the memory: the empty range
\* at the end of the memory fails it.
InBoundsBelowEnd(m, offset, len) ==
    /\ offset >= 0
    /\ offset < Len(m)
    /\ len >= 0
    /\ len <= Len(m) - offset

\* data.get(offset..).and_then(|s| s.get(..len)) is Some
InBounds(m, offset, len) ==
    /\ offset >= 0
    /\ offset <= Len(m)
    /\ len >= 0
    /\ len <= Len(m) - offset

\* A read that clamps the range to the memory instead of failing.
MemReadClamped(m, offset, len) ==
    LET o == IF offset < 0 \/ offset > Len(m) THEN Len(m) ELSE offset
        e == IF o + len > Len(m) THEN Len(m) ELSE o + len
    IN  [ok |-> TRUE, bytes |-> SubSeq(m, o + 1, e)]

\* Memory::read(store, offset, buffer) with buffer.len() = len
MemRead(m, offset, len) ==
    IF InBounds(m, offset, len)
    THEN [ok |-> TRUE, bytes |-> SubSeq(m, offset + 1, offset + len)]
    ELSE [ok |-> FALSE, bytes |-> <<>>]

\* Memory::write(store, offset, buffer)
MemWrite(m, offset, buffer) ==
    IF InBounds(m, offset, Len(buffer))
    THEN [ok |-> TRUE,
          mem |-> [i \in 1..Len(m) |->
                     IF i > offset /\ i <= offset + Len(buffer)
                     THEN buffer[i - offset] ELSE m[i]]]
    ELSE [ok |-> FALSE, mem |-> m]

(***************************************************************************)
(* HashMap<Vec<u8>, Vec<u8>>: a function from the keys present.           *)
(***************************************************************************)
EmptyMap == [k \in {} |-> <<>>]

\* An insert into a map emptied first: the other entries are lost.
insert_alone(db, key, value) == [k \in {key} |-> value]

\* HashMap::insert(key, value)
insert(db, key, value) ==
    [k \in DOMAIN db \cup {key} |-> IF k = key THEN value ELSE db[k]]

get(db, key) == IF key \in DOMAIN db THEN Some(db[key]) ELSE None

\* A default of one zero byte instead of the empty Vec.
unwrap_or_zero_byte(opt) == IF opt = None THEN <<0>> ELSE opt[1]

\* Option::unwrap_or(&Vec::new())
unwrap_or_empty(opt) == IF opt = None THEN <<>> ELSE opt[1]

(***************************************************************************)
(* The compiled wasmtest module: where its linker puts what lib.rs names. *)
(***************************************************************************)
ResultHeaderOffset == 0   \* first argument of entry
BodyOffset == 8           \* where the request body is written

\* The static byte strings b"world" and b"foo" follow the room for the body.
DataBase == BodyOffset + 8
WorldAddr == DataBase
FooAddr == DataBase + Len(world)
\* The stack slot read_key's WasmBytes result is returned through.
RetSlot == FooAddr + Len(foo)

Zeros(n) == [i \in 1..n |-> 0]

\* The memory of a fresh instance: the data segment, zero elsewhere.
InitialMemory ==
    Zeros(DataBase) \o world \o foo
        \o Zeros(InitPages * PageSize - DataBase - Len(world) - Len(foo))

\* The map function_handler builds before it creates the Store.
Seed == insert(EmptyMap, foo, bar)

\* What may be found at the module path: the repository's wasmtest module,
\* another module with the same imports and exports, such a module whose
\* memory has no page, a module whose imports or exports do not fit, no
\* readable module.
Artifacts ==
    {"wasmtest", "arbitrary", "nopages", "badimports", "noentry", "missing"}

\* Request bodies: the empty one, the scenario's, one equal to a key the guest
\* reads, and one that is one byte too long for the fresh memory.
TooLong == InitPages * PageSize - BodyOffset + 1
Bodies == {<<>>, hello, foo, [i \in 1..TooLong |-> 120]}

(***************************************************************************)
(* The host functions, as functions of the memory and the database.       *)
(***************************************************************************)
\* The results of the two reads ignored: a buffer whose read failed stays as
\* it was resized, value_len (key_len) zero bytes.
write_key_func_unchecked(m, db, key_base, key_len, value_base, value_len) ==
    LET key == MemRead(m, key_base, key_len)
        value == MemRead(m, value_base, value_len)
        k == IF key.ok THEN key.bytes ELSE Zeros(key_len)
        v == IF value.ok THEN value.bytes ELSE Zeros(value_len)
    IN  [ok |-> TRUE, database |-> insert(db, k, v), key |-> k, value |-> v]

\* write_key_func(key_base, key_len, value_base, value_len)
write_key_func(m, db, key_base, key_len, value_base, value_len) ==
    LET key == MemRead(m, key_base, key_len)
        value == MemRead(m, value_base, value_len)
    IN  IF key.ok /\ value.ok
        THEN [ok |-> TRUE, database |-> insert(db, key.bytes, value.bytes),
              key |-> key.bytes, value |-> value.bytes]
        ELSE [ok |-> FALSE, database |-> db, key |-> <<>>, value |-> <<>>]

\* The offset taken from the size the memory had when the instance was
\* created, not from its size at the call.
ResultOffsetAtStart(m, result) == InitPages * PageSize - Len(result)

\* The offset one byte too low: the tail ends one byte before the end of the
\* memory.
ResultOffsetBelow(m, result) == data_size(m) - Len(result) - 1

\* let result_offset = memory.data_size(..) - result.len(): a usize
\* subtraction.  It panics in a debug build and wraps in a release build;
\* the wrapped offset (negative here) fails the write that follows, so both
\* builds abort with the memory unchanged.
ResultOffset(m, result) == data_size(m) - Len(result)

\* read_key_func(result_base, key_base, key_len).  mem is the memory the call
\* leaves behind, also when a later access of the same call fails.
read_key_func(m, db, result_base, key_base, key_len) ==
    LET key == MemRead(m, key_base, key_len)
        result == unwrap_or_empty(get(db, key.bytes))
        result_offset == ResultOffset(m, result)
        w1 == MemWrite(m, result_offset, result)
        w2 == MemWrite(w1.mem, result_base, to_le_bytes(result_offset))
        w3 == MemWrite(w2.mem, result_base + 4, to_le_bytes(Len(result)))
    IN  IF ~key.ok THEN [ok |-> FALSE, mem |-> m, key |-> <<>>, value |-> <<>>]
        ELSE IF ~w1.ok
             THEN [ok |-> FALSE, mem |-> m, key |-> key.bytes, value |-> result]
        ELSE IF ~w2.ok
             THEN [ok |-> FALSE, mem |-> w1.mem, key |-> key.bytes,
                   value |-> result]
        ELSE [ok |-> w3.ok, mem |-> w3.mem, key |-> key.bytes, value |-> result]

\* The header read with its two words exchanged.
result_slice_swapped(m) ==
    LET result_base == i32_from_le_bytes(MemRead(m, 4, 4).bytes)
        result_len == i32_from_le_bytes(MemRead(m, 0, 4).bytes)
    IN  IF ~InBounds(m, result_base, result_len) THEN None
        ELSE Some(SubSeq(m, result_base + 1, result_base + result_len))

\* The end of function_handler: the header at offsets 0 and 4 is read as two
\* i32 and cast to usize, and the result is
\* &memory.data(&store)[result_base..][..result_len], which panics when the
\* range is not inside the memory.
result_slice(m) ==
    LET result_base_bytes == MemRead(m, ResultHeaderOffset, 4)
        result_len_bytes == MemRead(m, ResultHeaderOffset + 4, 4)
        result_base == i32_from_le_bytes(result_base_bytes.bytes)
        result_len == i32_from_le_bytes(result_len_bytes.bytes)
    IN  IF ~result_base_bytes.ok \/ ~result_len_bytes.ok THEN None
        ELSE IF ~InBounds(m, result_base, result_len) THEN None
        ELSE Some(SubSeq(m, result_base + 1, result_base + result_len))

(***************************************************************************)
(* function_handler, one request r.                                        *)
(***************************************************************************)
Order == <<"Idle", "Compiled", "Instantiated", "BodyWritten", "Invoked",
           "ResultExtracted">>

\* function_handler moves request r to position p.
Goto(r, p) ==
    /\ pc' = [pc EXCEPT ![r] = p]
    /\ hist' = [hist EXCEPT ![r] = Append(@, p)]
    /\ UNCHANGED fault

NoCall ==
    [fn |-> "none", result_base |-> 0, key_base |-> 0, key_len |-> 0,
     value_base |-> 0, value_len |-> 0]

\* An Err returned through `?`, or a panic, at step `at` (in capability call
\* c, if in one): the request is over and its Store is dropped.
Abort(r, at, c) ==
    /\ pc' = [pc EXCEPT ![r] = "Failed"]
    /\ hist' = [hist EXCEPT ![r] = Append(@, "Failed")]
    /\ fault' = [fault EXCEPT ![r] = Some([at |-> at, call |-> c])]
    /\ calls' = [calls EXCEPT ![r] = {}]

\* Module::from_file(&engine, ".../wasmtest.wasm")?
Compile(r) ==
    /\ pc[r] = "Idle"
    /\ IF artifact[r] = "missing" THEN Abort(r, "from_file", NoCall)
       ELSE Goto(r, "Compiled") /\ UNCHANGED calls
    /\ UNCHANGED <<artifact, body, database, mem, gpc, args, response, trace>>
    /\ UNCHANGED storeVars

\* MyState { database: HashMap::new() }, the seed, Store::new, the two
\* Func::wrap, Instance::new_async(..)?, get_memory(..).unwrap()
Instantiate(r) ==
    /\ pc[r] = "Compiled"
    /\ database' = [database EXCEPT ![r] = Seed]
    /\ IF artifact[r] = "badimports"
       THEN Abort(r, "new_async", NoCall) /\ UNCHANGED mem
       ELSE /\ Goto(r, "Instantiated")
            /\ mem' = [mem EXCEPT ![r] = IF artifact[r] = "nopages" THEN <<>>
                                          ELSE InitialMemory]
            /\ UNCHANGED calls
    /\ UNCHANGED <<artifact, body, gpc, args, response, trace>>
    /\ UNCHANGED storeVars

\* memory.write(&mut store, 8, body)?
WriteBody(r) ==
    /\ pc[r] = "Instantiated"
    /\ LET w == MemWrite(mem[r], BodyOffset, body[r])
       IN  IF w.ok
           THEN /\ Goto(r, "BodyWritten")
                /\ mem' = [mem EXCEPT ![r] = w.mem]
                /\ UNCHANGED calls
           ELSE Abort(r, "body", NoCall) /\ UNCHANGED mem
    /\ UNCHANGED <<artifact, body, database, gpc, args, response, trace>>
    /\ UNCHANGED storeVars

\* The position the guest starts at.
GuestStart(a) == IF a = "wasmtest" THEN "entry47" ELSE "run"

\* One database shared by every request of the process.
data_mut_shared(db, r, d) == [x \in Req |-> d]

\* caller.data_mut(): the MyState of the Store the call came from, which is
\* the request's own.
data_mut(db, r, d) == [db EXCEPT ![r] = d]

\* The entry point called without waiting for the body to be written.
MayInvokeBeforeBody(r) == pc[r] \in {"Instantiated", "BodyWritten"}

\* When function_handler may call the entry point.
MayInvoke(r) == pc[r] = "BodyWritten"

\* instance.get_typed_func(&mut store, "entry")? and the start of
\* run.call_async(&mut store, (0, 8, body.len() as i32))
Invoke(r) ==
    /\ MayInvoke(r)
    /\ IF artifact[r] = "noentry"
       THEN Abort(r, "get_typed_func", NoCall) /\ UNCHANGED <<gpc, args>>
       ELSE /\ Goto(r, "Invoked")
            /\ gpc' = [gpc EXCEPT ![r] = GuestStart(artifact[r])]
            /\ args' = [args EXCEPT ![r] =
                          <<ResultHeaderOffset, BodyOffset, Len(body[r])>>]
            /\ UNCHANGED calls
    /\ UNCHANGED <<artifact, body, database, mem, response, trace>>
    /\ UNCHANGED storeVars

\* The result of call_async dropped instead of returned with `?`.
MayExtractIgnoringErr(r) == gpc[r] \in {"returned", "trapped"}

\* When function_handler may read the result header: call_async has
\* returned Ok.
MayExtract(r) == pc[r] = "Invoked" /\ gpc[r] = "returned"

\* The header is read, the result is sliced out and the response is built
\* from it.
Extract(r) ==
    /\ MayExtract(r)
    /\ LET result == result_slice(mem[r])
       IN  IF result = None
           THEN Abort(r, "result", NoCall) /\ UNCHANGED response
           ELSE /\ Goto(r, "ResultExtracted")
                /\ response' = [response EXCEPT ![r] = result]
                /\ UNCHANGED calls
    /\ UNCHANGED <<artifact, body, database, mem, gpc, args, trace>>
    /\ UNCHANGED storeVars

(***************************************************************************)
(* The host functions as steps: each completes one call the guest started.*)
(***************************************************************************)
Completed(c, res) ==
    [fn |-> c.fn, header |-> c.result_base, key |-> res.key,
     value |-> res.value]

HostWriteKey(r) ==
    /\ pc[r] = "Invoked"
    /\ \E c \in calls[r] :
        /\ c.fn = "write_key"
        /\ LET res == write_key_func(mem[r], database[r], c.key_base,
                                     c.key_len, c.value_base, c.value_len)
           IN  IF res.ok
               THEN /\ database' = data_mut(database, r, res.database)
                    /\ calls' = [calls EXCEPT ![r] = @ \ {c}]
                    /\ trace' = [trace EXCEPT ![r] =
                                   Append(@, Completed(c, res))]
                    /\ UNCHANGED <<pc, hist, fault>>
               ELSE Abort(r, "write_key", c) /\ UNCHANGED <<database, trace>>
    /\ UNCHANGED <<artifact, body, mem, gpc, args, response>>
    /\ UNCHANGED storeVars

HostReadKey(r) ==
    /\ pc[r] = "Invoked"
    /\ \E c \in calls[r] :
        /\ c.fn = "read_key"
        /\ LET res == read_key_func(mem[r], database[r], c.result_base,
                                    c.key_base, c.key_len)
           IN  /\ mem' = [mem EXCEPT ![r] = res.mem]
               /\ IF res.ok
                  THEN /\ calls' = [calls EXCEPT ![r] = @ \ {c}]
                       /\ trace' = [trace EXCEPT ![r] =
                                      Append(@, Completed(c, res))]
                       /\ UNCHANGED <<pc, hist, fault>>
                  ELSE Abort(r, "read_key", c) /\ UNCHANGED trace
    /\ UNCHANGED <<artifact, body, database, gpc, args, response>>
    /\ UNCHANGED storeVars

(***************************************************************************)
(* The guest library (lib.rs).  A WasmBytes is the pair <<base, len>>.    *)
(***************************************************************************)
from_slice(base, len) == <<base, len>>

\* An import call as the guest's ABI passes it: each WasmBytes argument is
\* two words, a WasmBytes result is returned through a pointer passed first.
write_key(key, value) ==
    [fn |-> "write_key", result_base |-> 0, key_base |-> key[1],
     key_len |-> key[2], value_base |-> value[1], value_len |-> value[2]]

read_key(result, key) ==
    [fn |-> "read_key", result_base |-> result, key_base |-> key[1],
     key_len |-> key[2], value_base |-> 0, value_len |-> 0]

\* The WasmBytes stored at address p of the guest's memory.
WasmBytesAt(m, p) ==
    from_slice(u32_from_le_bytes(SubSeq(m, p + 1, p + 4)),
               u32_from_le_bytes(SubSeq(m, p + 5, p + 8)))

\* WasmBytes::as_slice: the bytes the handle covers.  A load outside the
\* memory traps (ok is FALSE).
as_slice(m, h) == MemRead(m, h[1], h[2])

\* A guest that runs on while a capability call is outstanding.
GuestRunningNoWait(r) == pc[r] = "Invoked"

\* A guest executes only while function_handler awaits call_async and no
\* capability call of the instance is outstanding.
GuestRunning(r) == pc[r] = "Invoked" /\ calls[r] = {}

StartCall(r, c, next) ==
    /\ calls' = [calls EXCEPT ![r] = @ \cup {c}]
    /\ gpc' = [gpc EXCEPT ![r] = next]
    /\ UNCHANGED <<pc, hist, fault, artifact, body, database, mem, args, response,
                   trace>>
    /\ UNCHANGED storeVars

\* A trap ends call_async with an Err, which `?` returns.
Trap(r) ==
    /\ Abort(r, "trap", NoCall)
    /\ gpc' = [gpc EXCEPT ![r] = "trapped"]

\* datastore::write(body, b"world")
Entry47(r) ==
    /\ GuestRunning(r)
    /\ gpc[r] = "entry47"
    /\ StartCall(r, write_key(from_slice(args[r][2], args[r][3]),
                              from_slice(WorldAddr, Len(world))),
                 "entry48")

\* datastore::read(b"foo", ..): read_key(WasmBytes::from_slice(key))
Entry48(r) ==
    /\ GuestRunning(r)
    /\ gpc[r] = "entry48"
    /\ StartCall(r, read_key(RetSlot, from_slice(FooAddr, Len(foo))),
                 "entry49")

\* f(result.as_slice()), whose first statement is
\* datastore::write(b"world", value)
Entry49(r) ==
    /\ GuestRunning(r)
    /\ gpc[r] = "entry49"
    /\ StartCall(r, write_key(from_slice(WorldAddr, Len(world)),
                              WasmBytesAt(mem[r], RetSlot)),
                 "entry50")

\* Vec<u8>::from(value): an empty Vec allocates nothing and holds the
\* dangling pointer 1; the module's first allocation makes the allocator
\* grow the memory, and the block starts where the memory ended.
VecFrom(m, bytes) ==
    IF bytes = <<>> THEN [ok |-> TRUE, mem |-> m, ptr |-> 1]
    ELSE IF Len(m) + PageSize > MaxPages * PageSize
         THEN [ok |-> FALSE, mem |-> m, ptr |-> 0]
    ELSE [ok |-> TRUE,
          mem |-> m \o bytes \o Zeros(PageSize - Len(bytes)),
          ptr |-> Len(m)]

\* value.into(); *result = WasmBytes::from_slice(&res); mem::forget(res)
Entry50(r) ==
    /\ GuestRunning(r)
    /\ gpc[r] = "entry50"
    /\ LET value == as_slice(mem[r], WasmBytesAt(mem[r], RetSlot))
           res == VecFrom(mem[r], value.bytes)
           w == MemWrite(res.mem, args[r][1],
                         to_le_bytes(res.ptr) \o to_le_bytes(Len(value.bytes)))
       IN  IF value.ok /\ res.ok /\ w.ok
           THEN /\ mem' = [mem EXCEPT ![r] = w.mem]
                /\ gpc' = [gpc EXCEPT ![r] = "returned"]
                /\ UNCHANGED <<pc, hist, fault, calls>>
           ELSE Trap(r) /\ UNCHANGED mem
    /\ UNCHANGED <<artifact, body, database, args, response, trace>>
    /\ UNCHANGED storeVars

(***************************************************************************)
(* Any other guest with the same imports and exports: it may call the     *)
(* imports with any arguments, grow its memory, trap, and return with any *)
(* result header.                                                          *)
(***************************************************************************)
KeyHandles(r) ==
    LET size == Len(mem[r])
    IN  {from_slice(FooAddr, Len(foo)),
         from_slice(args[r][2], args[r][3]),
         from_slice(size, 0), from_slice(size + 1, 0),
         from_slice(size - 1, 2)}

ValueHandles(r) ==
    LET size == Len(mem[r])
    IN  {from_slice(WorldAddr, Len(world)), from_slice(0, 0),
         from_slice(size + 1, 0), from_slice(size - 2, 3),
         from_slice(0, size + 1)}

HeaderOffsets(r) ==
    LET size == Len(mem[r])
    IN  {RetSlot, size - 8, size - 4, size - 11}

ReturnHeaders(r) ==
    LET size == Len(mem[r])
    IN  {WasmBytesAt(mem[r], RetSlot), from_slice(size, 0),
         from_slice(size - 2, 3), from_slice(-1, 0), from_slice(0, -1)}

Started(r) == Len(trace[r]) + Cardinality(calls[r])

GuestWriteKey(r) ==
    /\ GuestRunning(r)
    /\ gpc[r] = "run"
    /\ Started(r) < MaxCalls
    /\ \E k \in KeyHandles(r), v \in ValueHandles(r) :
        StartCall(r, write_key(k, v), "run")

GuestReadKey(r) ==
    /\ GuestRunning(r)
    /\ gpc[r] = "run"
    /\ Started(r) < MaxCalls
    /\ \E h \in HeaderOffsets(r), k \in KeyHandles(r) :
        StartCall(r, read_key(h, k), "run")

\* memory.grow(1)
GuestGrow(r) ==
    /\ GuestRunning(r)
    /\ gpc[r] = "run"
    /\ Len(mem[r]) + PageSize <= MaxPages * PageSize
    /\ mem' = [mem EXCEPT ![r] = @ \o Zeros(PageSize)]
    /\ UNCHANGED <<pc, hist, fault, calls, artifact, body, database, gpc, args,
                   response, trace>>
    /\ UNCHANGED storeVars

GuestReturn(r) ==
    /\ GuestRunning(r)
    /\ gpc[r] = "run"
    /\ \E h \in ReturnHeaders(r) :
        mem' = [mem EXCEPT ![r] =
                  MemWrite(@, args[r][1],
                           to_le_bytes(h[1]) \o to_le_bytes(h[2])).mem]
    /\ gpc' = [gpc EXCEPT ![r] = "returned"]
    /\ UNCHANGED <<pc, hist, fault, calls, artifact, body, database, args, response,
                   trace>>
    /\ UNCHANGED storeVars

GuestTrap(r) ==
    /\ GuestRunning(r)
    /\ gpc[r] = "run"
    /\ Trap(r)
    /\ UNCHANGED <<artifact, body, database, mem, args, response, trace>>
    /\ UNCHANGED storeVars

(***************************************************************************)
(* Specifications.                                                         *)
(***************************************************************************)
\* No memory of full width is looked at.
NoExtraction ==
    /\ header = Zeros(8)
    /\ pages = 1
    /\ extracted = None

InitStore ==
    /\ backend = "HashMap"
    /\ hmap = EmptyMap
    /\ table = {}
    /\ keyAttr = <<>>
    /\ emptyKeyOk = FALSE
    /\ last = <<>>
    /\ NoExtraction

InitRequests(A, B) ==
    /\ pc = [r \in Req |-> "Idle"]
    /\ artifact \in [Req -> A]
    /\ body \in [Req -> B]
    /\ database = [r \in Req |-> EmptyMap]
    /\ mem = [r \in Req |-> <<>>]
    /\ gpc = [r \in Req |-> "none"]
    /\ calls = [r \in Req |-> {}]
    /\ args = [r \in Req |-> <<>>]
    /\ response = [r \in Req |-> None]
    /\ hist = [r \in Req |-> <<"Idle">>]
    /\ fault = [r \in Req |-> None]
    /\ trace = [r \in Req |-> <<>>]

\* One request in progress; the other has arrived and is not served yet.
Init ==
    /\ InitRequests(Artifacts, Bodies)
    /\ artifact[2] = "wasmtest"
    /\ body[2] = hello
    /\ InitStore

Next ==
    \E r \in {1} :
        \/ Compile(r)
        \/ Instantiate(r)
        \/ WriteBody(r)
        \/ Invoke(r)
        \/ Entry47(r)
        \/ Entry48(r)
        \/ Entry49(r)
        \/ Entry50(r)
        \/ GuestWriteKey(r)
        \/ GuestReadKey(r)
        \/ GuestGrow(r)
        \/ GuestReturn(r)
        \/ GuestTrap(r)
        \/ HostWriteKey(r)
        \/ HostReadKey(r)
        \/ Extract(r)

Spec == Init /\ [][Next]_vars

\* Two requests served at once, each running the wasmtest module.
InitConc ==
    /\ InitRequests({"wasmtest"}, {hello, foo, world})
    /\ InitStore

NextConc ==
    \E r \in Req :
        \/ Compile(r)
        \/ Instantiate(r)
        \/ WriteBody(r)
        \/ Invoke(r)
        \/ Entry47(r)
        \/ Entry48(r)
        \/ Entry49(r)
        \/ Entry50(r)
        \/ HostWriteKey(r)
        \/ HostReadKey(r)
        \/ Extract(r)

SpecConc == InitConc /\ [][NextConc]_vars

(***************************************************************************)
(* The Datastore trait and its two implementations.                       *)
(***************************************************************************)
Replacement == <<239, 191, 189>>   \* U+FFFD in UTF-8

Cont(x) == x \in 128..191

\* The first chunk of b as core::str::Utf8Chunks delimits it: a valid
\* character, or a maximal invalid prefix.
Chunk(b) ==
    LET n == Len(b)
        c == b[1]
        second == IF n >= 2 THEN b[2] ELSE 0
        third == IF n >= 3 THEN b[3] ELSE 0
        fourth == IF n >= 4 THEN b[4] ELSE 0
    IN  IF c < 128 THEN [valid |-> TRUE, len |-> 1]
        ELSE IF c \in 194..223
        THEN IF Cont(second) THEN [valid |-> TRUE, len |-> 2]
             ELSE [valid |-> FALSE, len |-> 1]
        ELSE IF c \in 224..239
        THEN IF ~ \/ (c = 224 /\ second \in 160..191)
                  \/ (c \in 225..236 /\ Cont(second))
                  \/ (c = 237 /\ second \in 128..159)
                  \/ (c \in 238..239 /\ Cont(second))
             THEN [valid |-> FALSE, len |-> 1]
             ELSE IF ~Cont(third) THEN [valid |-> FALSE, len |-> 2]
             ELSE [valid |-> TRUE, len |-> 3]
        ELSE IF c \in 240..244
        THEN IF ~ \/ (c = 240 /\ second \in 144..191)
                  \/ (c \in 241..243 /\ Cont(second))
                  \/ (c = 244 /\ second \in 128..143)
             THEN [valid |-> FALSE, len |-> 1]
             ELSE IF ~Cont(third) THEN [valid |-> FALSE, len |-> 2]
             ELSE IF ~Cont(fourth) THEN [valid |-> FALSE, len |-> 3]
             ELSE [valid |-> TRUE, len |-> 4]
        ELSE [valid |-> FALSE, len |-> 1]

\* String::from_utf8_lossy(&key).to_string(), the String as its UTF-8 bytes.
RECURSIVE from_utf8_lossy(_)
from_utf8_lossy(b) ==
    IF b = <<>> THEN <<>>
    ELSE LET ch == Chunk(b)
         IN  (IF ch.valid THEN SubSeq(b, 1, ch.len) ELSE Replacement)
                 \o from_utf8_lossy(SubSeq(b, ch.len + 1, Len(b)))

\* An item, or a key, of the table: attribute name |-> binary value.
Item(name, blob) == [a \in {name} |-> blob]

\* What the service does with a request: whether it rejects it.  A request
\* must name exactly the table's key attribute (PutItem: among the item's
\* attributes), and the service may refuse an empty key value.
Rejected(attr, acceptsEmpty, m) ==
    \/ attr \notin DOMAIN m
    \/ m[attr] = <<>> /\ ~acceptsEmpty

\* client.put_item().table_name(..).item(key, AttributeValue::B(..)).send()
PutItemOutput(t, attr, acceptsEmpty, item) ==
    IF Rejected(attr, acceptsEmpty, item) THEN [ok |-> FALSE, table |-> t]
    ELSE [ok |-> TRUE,
          table |-> {i \in t : i[attr] # item[attr]} \cup {item}]

\* client.get_item().table_name(..).key(key, AttributeValue::B(..)).send()
GetItemOutput(t, attr, acceptsEmpty, key) ==
    IF Rejected(attr, acceptsEmpty, key) THEN [ok |-> FALSE, item |-> None]
    ELSE LET found == {i \in t : i[attr] = key[attr]}
         IN  [ok |-> TRUE,
              item |-> IF found = {} THEN None
                       ELSE Some(CHOOSE i \in found : TRUE)]

\* impl Datastore for DynamoDBDatastore: put_item.  .expect("put_item")
\* panics when the service rejects the request.
ddb_put_item(t, attr, acceptsEmpty, key, value) ==
    LET out == PutItemOutput(t, attr, acceptsEmpty,
                             Item(from_utf8_lossy(key), value))
    IN  [panicked |-> ~out.ok, table |-> out.table]

\* impl Datastore for DynamoDBDatastore: get_item.  The key sent is the
\* attribute named by the lossy key, with the value Blob::new(b"").
ddb_get_item(t, attr, acceptsEmpty, key) ==
    LET name == from_utf8_lossy(key)
        out == GetItemOutput(t, attr, acceptsEmpty, Item(name, <<>>))
    IN  [panicked |-> ~out.ok,
         result |-> IF out.item = None THEN None
                    ELSE IF name \in DOMAIN out.item[1]
                         THEN Some(out.item[1][name])
                    ELSE None]

\* impl Datastore for HashMap<Vec<u8>, Vec<u8>>
hm_put_item(db, key, value) == insert(db, key, value)

hm_get_item(db, key) == get(db, key)

StoreKeys == {<<>>, foo, <<255>>, <<254>>}
StoreValues == {<<>>, bar, world}
Backends == {"HashMap", "DynamoDB"}

\* The operations applied so far, the last two of them.
Log(entry) == last' = (IF Len(last) = 2 THEN Tail(last) ELSE last) \o <<entry>>

Panicked == \E i \in 1..Len(last) : last[i].panicked

Put(k, v) ==
    /\ UNCHANGED reqVars
    /\ UNCHANGED <<backend, keyAttr, emptyKeyOk, header, pages, extracted>>
    /\ ~Panicked
    /\ IF backend = "HashMap"
       THEN /\ hmap' = hm_put_item(hmap, k, v)
            /\ Log([op |-> "put", key |-> k, value |-> v,
                    panicked |-> FALSE, result |-> None])
            /\ UNCHANGED table
       ELSE LET res == ddb_put_item(table, keyAttr, emptyKeyOk, k, v)
            IN  /\ table' = res.table
                /\ Log([op |-> "put", key |-> k, value |-> v,
                        panicked |-> res.panicked, result |-> None])
                /\ UNCHANGED hmap

Get(k) ==
    /\ UNCHANGED reqVars
    /\ UNCHANGED <<backend, keyAttr, emptyKeyOk, header, pages, extracted>>
    /\ ~Panicked
    /\ IF backend = "HashMap"
       THEN Log([op |-> "get", key |-> k, value |-> <<>>,
                 panicked |-> FALSE, result |-> hm_get_item(hmap, k)])
       ELSE LET res == ddb_get_item(table, keyAttr, emptyKeyOk, k)
            IN  Log([op |-> "get", key |-> k, value |-> <<>>,
                     panicked |-> res.panicked, result |-> res.result])
    /\ UNCHANGED <<hmap, table>>

InitDatastore ==
    /\ InitRequests({"wasmtest"}, {hello})
    /\ backend \in Backends
    /\ hmap = EmptyMap
    /\ table = {}
    /\ keyAttr \in IF backend = "HashMap" THEN {<<>>}
                   ELSE {from_utf8_lossy(k) : k \in StoreKeys} \ {<<>>}
    /\ emptyKeyOk \in IF backend = "HashMap" THEN {FALSE} ELSE BOOLEAN
    /\ last = <<>>
    /\ NoExtraction

NextDatastore ==
    \/ \E k \in StoreKeys, v \in StoreValues : Put(k, v)
    \/ \E k \in StoreKeys : Get(k)

SpecDatastore == InitDatastore /\ [][NextDatastore]_vars

(***************************************************************************)
(* The final slicing at the width of the host.  A usize of the 64-bit     *)
(* host is four limbs of 16 bits, the least significant first, so that    *)
(* memories of 2 GiB and more and sign-extended words are what they are   *)
(* in the build.                                                          *)
(***************************************************************************)
Limb == 256 * 256

\* n as usize for an i32 n: the sign bit fills the upper 32 bits.
i32_as_usize(n) ==
    LET q1 == n \div Limb
        q2 == q1 \div Limb
        q3 == q2 \div Limb
    IN  <<n % Limb, q1 % Limb, q2 % Limb, q3 % Limb>>

\* memory.data(&store).len() of a memory of p pages of 64 KiB.
data_len(p) == <<0, p % Limb, p \div Limb, 0>>

\* a < b and a <= b on usize.
usize_lt(a, b) ==
    \E i \in 1..4 : a[i] < b[i] /\ \A j \in (i + 1)..4 : a[j] = b[j]

usize_le(a, b) == a = b \/ usize_lt(a, b)

\* a - b on usize for b <= a, limb by limb with a borrow.
RECURSIVE usize_sub_from(_, _, _, _)
usize_sub_from(a, b, i, borrow) ==
    IF i > 4 THEN <<>>
    ELSE LET d == a[i] - b[i] - borrow
         IN  <<d % Limb>> \o usize_sub_from(a, b, i + 1, IF d < 0 THEN 1 ELSE 0)

usize_sub(a, b) == usize_sub_from(a, b, 1, 0)

\* data[base..][..len] exists: base <= data.len() and len <= data.len() - base.
slice_exists(size, base, len) ==
    /\ usize_le(base, size)
    /\ usize_le(len, usize_sub(size, base))

\* The end of function_handler on a memory of p pages whose first eight bytes
\* are h: the two words are read as i32 and cast to usize, and
\* &memory.data(&store)[result_base..][..result_len] is the range of
\* result_len bytes from result_base, or a panic (None) when no such range
\* exists.
result_range(p, h) ==
    LET result_base == i32_as_usize(i32_from_le_bytes(SubSeq(h, 1, 4)))
        result_len == i32_as_usize(i32_from_le_bytes(SubSeq(h, 5, 8)))
    IN  [result_base |-> result_base, result_len |-> result_len,
         slice |-> IF slice_exists(data_len(p), result_base, result_len)
                   THEN Some([start |-> result_base, len |-> result_len])
                   ELSE None]

\* Header words: 0, 1, 2^16, 2^31 - 1, 2^31 and 2^32 - 1.
HeaderWords ==
    {<<0, 0, 0, 0>>, <<1, 0, 0, 0>>, <<0, 0, 1, 0>>, <<255, 255, 255, 127>>,
     <<0, 0, 0, 128>>, <<255, 255, 255, 255>>}

\* Memory sizes: 64 KiB, 2 GiB, 2 GiB + 64 KiB and the 4 GiB a 32-bit
\* memory can grow to.
MemoryPages == {1, 128 * 256, 128 * 256 + 1, Limb}

ExtractRange ==
    /\ extracted = None
    /\ extracted' = Some(result_range(pages, header))
    /\ UNCHANGED reqVars
    /\ UNCHANGED <<backend, hmap, table, keyAttr, emptyKeyOk, last, header,
                   pages>>

InitHeader ==
    /\ InitRequests({"wasmtest"}, {hello})
    /\ backend = "HashMap"
    /\ hmap = EmptyMap
    /\ table = {}
    /\ keyAttr = <<>>
    /\ emptyKeyOk = FALSE
    /\ last = <<>>
    /\ header \in {b \o l : b \in HeaderWords, l \in HeaderWords}
    /\ pages \in MemoryPages
    /\ extracted = None

NextHeader == ExtractRange

SpecHeader == InitHeader /\ [][NextHeader]_vars

(***************************************************************************)
(* Properties.                                                             *)
(***************************************************************************)
\* The range [base, base + len) does not lie inside memory m.
Exceeds(m, base, len) == base + len > Len(m)

\* The bytes of memory m at [base, base + len).
Range(m, base, len) == SubSeq(m, base + 1, base + len)

\* C1: put(k, v) immediately followed by get(k) on the same store returns
\* exactly v, whichever implementation of Datastore the store is.
C1_PutThenGet ==
    (/\ Len(last) = 2
     /\ last[1].op = "put" /\ ~last[1].panicked
     /\ last[2].op = "get" /\ last[2].key = last[1].key)
    => (~last[2].panicked /\ last[2].result = Some(last[1].value))

\* Key k was written neither by function_handler's seed nor by a write_key
\* call of request r.
NeverWritten(r, k) ==
    /\ k # foo
    /\ \A i \in 1..Len(trace[r]) :
        trace[r][i].fn = "write_key" => trace[r][i].key # k

\* C2: a read_key call, with its key and its result header inside the memory,
\* for a key never written in the request's store does not fail the request
\* and leaves at the header a handle of length 0, which the guest reads as the
\* empty byte sequence.
C2_AbsentKeyReadsEmpty ==
    [][\A r \in Req : \A c \in calls[r] :
         (/\ c.fn = "read_key"
          /\ c \notin calls'[r]
          /\ ~Exceeds(mem[r], c.key_base, c.key_len)
          /\ ~Exceeds(mem[r], c.result_base, 8)
          /\ NeverWritten(r, Range(mem[r], c.key_base, c.key_len)))
         => /\ pc'[r] = "Invoked"
            /\ WasmBytesAt(mem'[r], c.result_base)[2] = 0
            /\ as_slice(mem'[r], WasmBytesAt(mem'[r], c.result_base))
                 = [ok |-> TRUE, bytes |-> <<>>]]_vars

C2_Witness ==
    \E i \in 1..Len(trace[1]) :
        /\ trace[1][i].fn = "read_key"
        /\ trace[1][i].key = hello
        /\ trace[1][i].value = <<>>
        /\ \A j \in 1..(i - 1) : trace[1][j].key # hello
        /\ pc[1] = "Invoked"

\* The four header bytes b read as an unsigned number, when below 2^31.
Low(b) == b[1] + 256 * b[2] + 65536 * b[3] + 16777216 * b[4]

\* The result header at offsets 0 and 4 of memory m, read as two unsigned
\* words, names a range that does not lie inside m.
HeaderExceeds(m) ==
    LET b == Range(m, 0, 4)
        l == Range(m, 4, 4)
    IN  \/ b[4] >= 128
        \/ l[4] >= 128
        \/ Low(b) > Len(m)
        \/ Low(l) > Len(m) - Low(b)

\* The step writes request r's body.
BodyStep(r) == pc[r] = "Instantiated" /\ pc'[r] # "Instantiated"

\* The step ends capability call c of request r.
CallStep(r, c) == c \in calls[r] /\ c \notin calls'[r]

\* The step extracts request r's result.
ExtractStep(r) == pc[r] = "Invoked" /\ gpc[r] = "returned" /\ pc'[r] # "Invoked"

\* The step makes a host access to request r's memory that exceeds it.
BoundsViolation(r) ==
    \/ BodyStep(r) /\ Exceeds(mem[r], 8, Len(body[r]))
    \/ \E c \in calls[r] :
        /\ CallStep(r, c)
        /\ \/ Exceeds(mem[r], c.key_base, c.key_len)
           \/ c.fn = "write_key" /\ Exceeds(mem[r], c.value_base, c.value_len)
           \/ c.fn = "read_key" /\ Exceeds(mem[r], c.result_base, 8)
    \/ ExtractStep(r) /\ HeaderExceeds(mem[r])

\* C3: a step with a host access that exceeds the memory aborts the request,
\* stores nothing and answers nothing; a step whose accesses all lie inside
\* the memory transfers exactly the bytes of the ranges named.
C3_OutOfBoundsAborts ==
    [][\A r \in Req :
         /\ BoundsViolation(r)
              => /\ pc'[r] = "Failed"
                 /\ database'[r] = database[r]
                 /\ response'[r] = None
         /\ BodyStep(r) /\ ~BoundsViolation(r)
              => Range(mem'[r], 8, Len(body[r])) = body[r]
         /\ \A c \in calls[r] :
              CallStep(r, c) /\ ~BoundsViolation(r)
              => /\ Len(trace'[r]) = Len(trace[r]) + 1
                 /\ LET e == trace'[r][Len(trace'[r])]
                    IN  /\ e.key = Range(mem[r], c.key_base, c.key_len)
                        /\ c.fn = "write_key"
                             => e.value = Range(mem[r], c.value_base,
                                                c.value_len)
         /\ ExtractStep(r) /\ ~BoundsViolation(r)
              => response'[r]
                   = Some(Range(mem[r], Low(Range(mem[r], 0, 4)),
                                Low(Range(mem[r], 4, 4))))]_vars

C3_Witness ==
    /\ pc[1] = "Failed"
    /\ fault[1] # None
    /\ fault[1][1].at = "write_key"
    /\ ~Exceeds(mem[1], fault[1][1].call.key_base, fault[1][1].call.key_len)
    /\ Exceeds(mem[1], fault[1][1].call.value_base,
               fault[1][1].call.value_len)
    /\ fault[1][1].call.value_base < Len(mem[1])

\* C4: after a read_key call for a stored key returns, the handle at
\* result_header_offset covers exactly the stored value's bytes.
C4_ReadKeyRoundTrip ==
    [][\A r \in Req : \A c \in calls[r] :
         (/\ c.fn = "read_key"
          /\ CallStep(r, c)
          /\ pc'[r] = "Invoked"
          /\ Range(mem[r], c.key_base, c.key_len) \in DOMAIN database[r])
         => as_slice(mem'[r], WasmBytesAt(mem'[r], c.result_base))
              = [ok |-> TRUE,
                 bytes |-> database[r][Range(mem[r], c.key_base,
                                             c.key_len)]]]_vars

\* C5: for the body b"hello" the wasmtest module's request does not fail, and
\* the result function_handler extracts is b"bar".
C5_HelloYieldsBar ==
    \A r \in Req :
        (artifact[r] = "wasmtest" /\ body[r] = hello)
        => /\ pc[r] # "Failed"
           /\ pc[r] = "ResultExtracted" => response[r] = Some(bar)

C5_Witness ==
    /\ artifact[1] = "wasmtest"
    /\ body[1] = hello
    /\ pc[1] = "ResultExtracted"
    /\ response[1] # None

\* C6: for the body b"hello" the guest's calls are, in order,
\* write_key(world, hello), read_key(foo), write_key(world, bar), and the
\* store ends with world -> bar.
C6_CallOrder ==
    \A r \in Req :
        (artifact[r] = "wasmtest" /\ body[r] = hello /\ gpc[r] = "returned")
        => /\ Len(trace[r]) = 3
           /\ trace[r][1].fn = "write_key"
           /\ trace[r][1].key = world /\ trace[r][1].value = hello
           /\ trace[r][2].fn = "read_key" /\ trace[r][2].key = foo
           /\ trace[r][3].fn = "write_key"
           /\ trace[r][3].key = world /\ trace[r][3].value = bar
           /\ get(database[r], world) = Some(bar)

\* h is a prefix of Order, or one followed by the failure that ended it.
InOrder(h) ==
    \E n \in 1..Len(Order) :
        \/ h = SubSeq(Order, 1, n)
        \/ n < Len(Order) /\ h = SubSeq(Order, 1, n) \o <<"Failed">>

\* C7: a request goes through Idle, Compiled, Instantiated, BodyWritten,
\* Invoked, ResultExtracted in this order, none skipped or revisited, until it
\* ends or fails; when the entry point is invoked the body lies at offset 8
\* and the arguments are (0, 8, body length); the result header is read only
\* once the entry point has returned.
C7_StateOrder ==
    [][\A r \in Req :
         /\ InOrder(hist'[r])
         /\ pc'[r] = hist'[r][Len(hist'[r])]
         /\ (pc[r] # "Invoked" /\ pc'[r] = "Invoked")
              => /\ Range(mem[r], 8, Len(body[r])) = body[r]
                 /\ args'[r] = <<0, 8, Len(body[r])>>
                 /\ gpc[r] = "none"
         /\ (pc[r] # "ResultExtracted" /\ pc'[r] = "ResultExtracted")
              => gpc[r] = "returned"]_vars

C7_Witness == pc[1] = "ResultExtracted" /\ hist[1] = Order

\* The step is a trap of request r's guest, or fails its instantiation.
TrapOrInstantiationFailure(r) ==
    \/ gpc[r] # "trapped" /\ gpc'[r] = "trapped"
    \/ pc[r] = "Compiled" /\ pc'[r] # "Compiled" /\ artifact[r] = "badimports"

\* C8: a bounds violation, a trap or an instantiation failure ends the
\* request in failure; a failed request has no response, and nothing of it
\* runs again.
C8_FailureIsFinal ==
    [][\A r \in Req :
         /\ (BoundsViolation(r) \/ TrapOrInstantiationFailure(r))
              => pc'[r] = "Failed"
         /\ pc'[r] = "Failed" => response'[r] = None
         /\ response'[r] # None => (pc'[r] = "ResultExtracted" /\ fault'[r] = None)
         /\ pc[r] = "Failed"
              => /\ pc'[r] = "Failed"
                 /\ hist'[r] = hist[r]
                 /\ trace'[r] = trace[r]
                 /\ calls'[r] = calls[r]
                 /\ database'[r] = database[r]
                 /\ mem'[r] = mem[r]]_vars

C8_Witness ==
    /\ pc[1] = "Failed"
    /\ fault[1] # None
    /\ fault[1][1].at \in {"read_key", "trap"}
    /\ Len(trace[1]) >= 1
    /\ response[1] = None

\* What the i-th call of tr, a read_key, returns if the store holds the seed
\* foo -> bar and the write_key calls before it in tr, and nothing else.
OwnValue(tr, i) ==
    LET ws == {j \in 1..(i - 1) :
                 tr[j].fn = "write_key" /\ tr[j].key = tr[i].key}
    IN  IF ws = {} THEN (IF tr[i].key = foo THEN bar ELSE <<>>)
        ELSE tr[CHOOSE j \in ws : \A k \in ws : k <= j].value

\* C9: with two requests in progress at once, every read_key returns what the
\* request's own seed and own earlier write_key calls determine.
C9_Isolation ==
    \A r \in Req : \A i \in 1..Len(trace[r]) :
        trace[r][i].fn = "read_key"
        => trace[r][i].value = OwnValue(trace[r], i)

C9_Witness ==
    /\ Len(trace[1]) >= 1
    /\ trace[1][1].key = foo
    /\ trace[1][1].value = world
    /\ Len(trace[2]) >= 2
    /\ trace[2][2].fn = "read_key"
    /\ trace[2][2].key = foo
    /\ trace[2][2].value = bar
    /\ Len(trace[1]) < 3

\* C10: an instance has at most one capability call outstanding; while one is
\* outstanding the guest does not move and starts no other call.
C10_OneCallAtATime ==
    [][\A r \in Req :
         /\ Cardinality(calls'[r]) <= 1
         /\ calls[r] # {}
              => /\ gpc'[r] = gpc[r]
                 /\ calls'[r] \subseteq calls[r]]_vars

C10_Witness ==
    /\ Len(trace[1]) >= 1
    /\ Cardinality(calls[1]) = 1
    /\ pc[1] = "Invoked"

\* What get_item(k) yields on the store as it stands: the value it returns
\* and whether it panics instead.
Returns(k) ==
    IF backend = "HashMap"
    THEN [panicked |-> FALSE, result |-> hm_get_item(hmap, k)]
    ELSE ddb_get_item(table, keyAttr, emptyKeyOk, k)

\* C11: keys are compared byte for byte in both implementations of Datastore:
\* a put_item(k1, v) that returns leaves what get_item(k2) yields as it was,
\* for every key k2 that differs from k1 in some byte, keys that are not
\* valid UTF-8 included.
C11_KeysCompareExactly ==
    [][\A k1 \in StoreKeys, v \in StoreValues, k2 \in StoreKeys :
         (/\ Put(k1, v)
          /\ ~last'[Len(last')].panicked
          /\ k2 # k1)
            => Returns(k2)' = Returns(k2)]_vars

\* The four bytes b as an unsigned little-endian 32-bit number, widened to
\* usize.
Unsigned(b) == <<b[1] + 256 * b[2], b[3] + 256 * b[4], 0, 0>>

\* C12: the header at offsets 0 and 4 is taken as unsigned little-endian
\* 32-bit offset and length, for values of 2^31 and more too: whenever the
\* memory holds that many bytes from that offset, the range extracted starts
\* at the unsigned offset and has the unsigned length.
C12_HeaderIsUnsigned ==
    extracted # None =>
        LET offset == Unsigned(SubSeq(header, 1, 4))
            length == Unsigned(SubSeq(header, 5, 8))
        IN  slice_exists(data_len(pages), offset, length)
                => extracted[1].slice = Some([start |-> offset, len |-> length])

\* C13: a write_key call whose key and value handles lie inside the memory
\* leaves the store mapping the key's bytes to the value's bytes, every other
\* key mapped as before, and the guest memory as it was.
C13_WriteKeyFrame ==
    [][\A r \in Req : \A c \in calls[r] :
         (/\ c.fn = "write_key"
          /\ CallStep(r, c)
          /\ ~Exceeds(mem[r], c.key_base, c.key_len)
          /\ ~Exceeds(mem[r], c.value_base, c.value_len))
            => LET key == Range(mem[r], c.key_base, c.key_len)
                   value == Range(mem[r], c.value_base, c.value_len)
               IN  /\ DOMAIN database'[r] = DOMAIN database[r] \cup {key}
                   /\ database'[r][key] = value
                   /\ \A k \in DOMAIN database[r] \ {key} :
                        database'[r][k] = database[r][k]
                   /\ mem'[r] = mem[r]
                   /\ pc'[r] = "Invoked"]_vars

C13_Witness ==
    /\ artifact[1] = "arbitrary"
    /\ pc[1] = "Invoked"
    /\ Len(trace[1]) = 2
    /\ trace[1][1].fn = "write_key" /\ trace[1][1].key = foo
    /\ trace[1][2].fn = "write_key" /\ trace[1][2].key = hello
    /\ DOMAIN database[1] = {foo, hello}
    /\ database[1][foo] = <<>>
    /\ database[1][hello] = world

\* Capability call c of request r names no range that exceeds the memory,
\* its zero-length handles left aside.
OthersInside(r, c) ==
    /\ c.key_len # 0 => ~Exceeds(mem[r], c.key_base, c.key_len)
    /\ c.fn = "write_key" /\ c.value_len # 0
         => ~Exceeds(mem[r], c.value_base, c.value_len)
    /\ c.fn = "read_key" => ~Exceeds(mem[r], c.result_base, 8)

\* The step ends call c of request r by returning to the guest, and has read
\* each zero-length handle of c as the empty byte string.
ReadAsEmpty(r, c) ==
    /\ pc'[r] = "Invoked"
    /\ Len(trace'[r]) = Len(trace[r]) + 1
    /\ c.key_len = 0 => trace'[r][Len(trace'[r])].key = <<>>
    /\ c.fn = "write_key" /\ c.value_len = 0
         => /\ trace'[r][Len(trace'[r])].value = <<>>
            /\ database'[r][trace'[r][Len(trace'[r])].key] = <<>>

\* The zero-length handles of call c.
ZeroLengthBases(c) ==
    (IF c.key_len = 0 THEN {c.key_base} ELSE {})
        \cup (IF c.fn = "write_key" /\ c.value_len = 0 THEN {c.value_base}
              ELSE {})

\* C14 as stated: write_key and read_key accept a zero-length handle whatever
\* its base is, a base beyond the memory size included: they read it as the
\* empty byte string and the request goes on.
C14_ZeroLengthAnyBase ==
    [][\A r \in Req : \A c \in calls[r] :
         (/\ CallStep(r, c)
          /\ ZeroLengthBases(c) # {}
          /\ OthersInside(r, c))
            => ReadAsEmpty(r, c)]_vars

\* C14, amended: write_key and read_key accept a zero-length handle whose
\* base is at most the memory size, reading it as the empty byte string
\* without aborting; a zero-length handle whose base is beyond the memory
\* size aborts the request.
C14_ZeroLengthUpToSize ==
    [][\A r \in Req : \A c \in calls[r] :
         (/\ CallStep(r, c)
          /\ ZeroLengthBases(c) # {}
          /\ OthersInside(r, c))
            => IF \A b \in ZeroLengthBases(c) : b <= Len(mem[r])
               THEN ReadAsEmpty(r, c)
               ELSE /\ pc'[r] = "Failed"
                    /\ database'[r] = database[r]]_vars

C14_Witness ==
    /\ artifact[1] = "arbitrary"
    /\ body[1] = hello
    /\ pc[1] = "Invoked"
    /\ Len(trace[1]) = 2
    /\ trace[1][1].fn = "write_key"
    /\ trace[1][1].key = <<>> /\ trace[1][1].value = <<>>
    /\ trace[1][2].fn = "read_key"
    /\ trace[1][2].key = <<>>

\* C15: read_key takes the tail offset from the size the memory has when the
\* tail is written: within the one step of the host function the memory does
\* not grow, the store is not called and the guest does not run, and the
\* offset returned is the size of the memory left behind minus the length of
\* the result, with the result's bytes from that offset on.
C15_TailOffsetCurrent ==
    [][\A r \in Req : \A c \in calls[r] :
         (/\ c.fn = "read_key"
          /\ CallStep(r, c)
          /\ pc'[r] = "Invoked")
            => LET result == trace'[r][Len(trace'[r])].value
                   size == Len(mem'[r])
                   result_offset == size - Len(result)
               IN  /\ Len(mem'[r]) = Len(mem[r])
                   /\ database'[r] = database[r]
                   /\ gpc'[r] = gpc[r]
                   /\ WasmBytesAt(mem'[r], c.result_base)
                        = <<result_offset, Len(result)>>
                   /\ \A i \in 1..Len(result) :
                        \/ /\ result_offset + i > c.result_base
                           /\ result_offset + i <= c.result_base + 8
                        \/ mem'[r][result_offset + i] = result[i]]_vars

C15_Witness ==
    /\ artifact[1] = "arbitrary"
    /\ pc[1] = "Invoked"
    /\ Len(mem[1]) > InitPages * PageSize
    /\ Len(trace[1]) = 1
    /\ trace[1][1].fn = "read_key"
    /\ trace[1][1].key = foo
    /\ trace[1][1].value = bar
    /\ Range(mem[1], Len(mem[1]) - 3, 3) = bar

\* Request r's entry has been called, so its guest may have made calls.
EntryCalled(r) == \E i \in 1..Len(hist[r]) : hist[r][i] = "Invoked"

C17_ReadKeyFrame ==
    [][\A r \in Req : \A c \in calls[r] :
         (c.fn = "read_key" /\ CallStep(r, c))
            => /\ database'[r] = database[r]
               /\ Len(mem'[r]) = Len(mem[r])
               /\ IF Exceeds(mem[r], c.key_base, c.key_len)
                  THEN mem'[r] = mem[r]
                  ELSE LET key == Range(mem[r], c.key_base, c.key_len)
                           length == IF key \in DOMAIN database[r]
                                     THEN Len(database[r][key]) ELSE 0
                           size == Len(mem[r])
                       IN  \A i \in 1..size :
                             mem'[r][i] # mem[r][i]
                               => \/ i > size - length
                                  \/ /\ i > c.result_base
                                     /\ i <= c.result_base + 8]_vars

C17_Witness ==
    /\ artifact[1] = "arbitrary"
    /\ pc[1] = "Invoked"
    /\ Len(trace[1]) = 2
    /\ trace[1][1].fn = "read_key"
    /\ trace[1][1].key = foo /\ trace[1][1].header = RetSlot
    /\ trace[1][2].fn = "read_key"
    /\ trace[1][2].key = hello /\ trace[1][2].value = <<>>
    /\ Range(mem[1], Len(mem[1]) - 3, 3) = bar
    /\ database[1] = Seed
    /\ Range(mem[1], FooAddr, 3) = foo

====
